---- MODULE Spec2Model ----
(***************************************************************************)
(* Model of the pump detector: src/pump_detector.py (the detection cycle,  *)
(* the universe cache, the signal log, the cycle lock and the scheduler    *)
(* loop), src/telegram_bot.py (the webhook call) and src/app.py (the       *)
(* scheduler thread).                                                      *)
(*                                                                         *)
(* Specifications: Spec (two callers of detect_pumps), SpecSolo (the       *)
(* scheduler thread alone), SpecServer (the scheduler and GET /signals),   *)
(* SpecGrid (one cycle over a grid of ticker payloads), SpecPure (the      *)
(* scorer's functions applied directly) and SpecBoot (the module imports). *)
(*                                                                         *)
(* Numbers are IEEE 754 binary64 values: every float operation rounds its  *)
(* exact result to the nearest double, ties to even.  The significands are *)
(* kept as big naturals, sequences of 15-bit limbs.                        *)
(***************************************************************************)
EXTENDS Integers, Sequences, FiniteSets, TLC

(***************************************************************************)
(* Bounds of the model.                                                    *)
(***************************************************************************)
\* Number of detect_pumps invocations started, over all callers.
MaxCycles == 2

\* normalize_value is applied to values, lower and upper ends up to this size.
MaxValue == 2

\* The scorer is applied to volumes and averages up to this size.
MaxVolume == 4

(***************************************************************************)
(* Big naturals: the 53-bit significands and the wider intermediate        *)
(* results of the float operations.                                        *)
(***************************************************************************)
Abs(x) == IF x < 0 THEN -x ELSE x
Max(a, b) == IF a > b THEN a ELSE b

\* Natural numbers of any size: little-endian sequences of 15-bit limbs
\* without a high zero limb; <<>> is 0.
Limb == 2^15

RECURSIVE BTrim(_)
BTrim(x) == IF x # <<>> /\ x[Len(x)] = 0 THEN BTrim(SubSeq(x, 1, Len(x) - 1)) ELSE x

RECURSIVE BFromInt(_)
BFromInt(n) == IF n = 0 THEN <<>> ELSE <<n % Limb>> \o BFromInt(n \div Limb)

RECURSIVE BToInt(_)
BToInt(x) == IF x = <<>> THEN 0 ELSE Head(x) + Limb * BToInt(Tail(x))

BLimb(x, i) == IF i <= Len(x) THEN x[i] ELSE 0

RECURSIVE BCmpAt(_, _, _)
BCmpAt(x, y, i) ==
    IF i = 0 THEN 0
    ELSE IF x[i] < y[i] THEN -1
    ELSE IF x[i] > y[i] THEN 1
    ELSE BCmpAt(x, y, i - 1)

\* -1, 0 or 1 as x is below, equal to or above y.
BCmp(x, y) ==
    IF Len(x) < Len(y) THEN -1
    ELSE IF Len(x) > Len(y) THEN 1
    ELSE BCmpAt(x, y, Len(x))

RECURSIVE BCarry(_, _)
\* The limbs of a sequence of column sums, with the carries moved up.
BCarry(sums, carry) ==
    IF sums = <<>> THEN (IF carry = 0 THEN <<>> ELSE <<carry>>)
    ELSE <<(Head(sums) + carry) % Limb>>
         \o BCarry(Tail(sums), (Head(sums) + carry) \div Limb)

BAdd(x, y) == BCarry([i \in 1..Max(Len(x), Len(y)) |-> BLimb(x, i) + BLimb(y, i)], 0)

RECURSIVE BBorrow(_, _)
\* The limbs of a sequence of column differences, with the borrows moved up.
BBorrow(diffs, borrow) ==
    IF diffs = <<>> THEN <<>>
    ELSE <<(Head(diffs) - borrow) % Limb>>
         \o BBorrow(Tail(diffs), IF Head(diffs) - borrow < 0 THEN 1 ELSE 0)

\* x - y for x >= y.
BSub(x, y) == BTrim(BBorrow([i \in 1..Len(x) |-> x[i] - BLimb(y, i)], 0))

\* x * k + carry for k, carry below 2^15.
BMulSmall(x, k, carry) ==
    IF k = 0 THEN BFromInt(carry)
    ELSE IF k = 1 /\ carry = 0 THEN x
    ELSE BCarry([i \in 1..Len(x) |-> x[i] * k], carry)

BShlLimbs(x, n) == IF x = <<>> \/ n = 0 THEN x ELSE [i \in 1..n |-> 0] \o x

RECURSIVE BMulFrom(_, _, _)
\* x times the limbs y[j..], the product of x and y for j = 1.
BMulFrom(x, y, j) ==
    IF j > Len(y) THEN <<>>
    ELSE BAdd(BShlLimbs(BMulSmall(x, y[j], 0), j - 1), BMulFrom(x, y, j + 1))

\* x * 2^n.
BShl(x, n) == BShlLimbs(BMulSmall(x, 2^(n % 15), 0), n \div 15)

RECURSIVE BDivSmallFrom(_, _, _, _)
\* The limbs of x[1..i] div d, the high limb first, given the remainder of
\* the limbs above.
BDivSmallFrom(x, d, i, rem) ==
    IF i = 0 THEN <<>>
    ELSE <<(rem * Limb + x[i]) \div d>>
         \o BDivSmallFrom(x, d, i - 1, (rem * Limb + x[i]) % d)

RECURSIVE BModSmallFrom(_, _, _, _)
\* x[1..i] mod d, given the remainder of the limbs above.
BModSmallFrom(x, d, i, rem) ==
    IF i = 0 THEN rem ELSE BModSmallFrom(x, d, i - 1, (rem * Limb + x[i]) % d)

BReverse(x) == [i \in 1..Len(x) |-> x[Len(x) + 1 - i]]

\* x div d for 0 < d <= 2^15.
BDivSmall(x, d) == IF d = 1 THEN x ELSE BTrim(BReverse(BDivSmallFrom(x, d, Len(x), 0)))

\* x div 2^n.
BShr(x, n) ==
    IF n = 0 THEN x
    ELSE IF n \div 15 >= Len(x) THEN <<>>
    ELSE BDivSmall(SubSeq(x, n \div 15 + 1, Len(x)), 2^(n % 15))

\* Number of bits of a limb.
IntBitLen(n) ==
    IF n < 2^7 THEN
        IF n < 2^3 THEN (IF n < 2 THEN n ELSE IF n < 4 THEN 2 ELSE 3)
        ELSE IF n < 2^5 THEN (IF n < 2^4 THEN 4 ELSE 5)
        ELSE IF n < 2^6 THEN 6 ELSE 7
    ELSE IF n < 2^11 THEN
        IF n < 2^9 THEN (IF n < 2^8 THEN 8 ELSE 9)
        ELSE IF n < 2^10 THEN 10 ELSE 11
    ELSE IF n < 2^13 THEN (IF n < 2^12 THEN 12 ELSE 13)
    ELSE IF n < 2^14 THEN 14 ELSE 15

\* Number of bits of x.
BBitLen(x) == IF x = <<>> THEN 0 ELSE 15 * (Len(x) - 1) + IntBitLen(x[Len(x)])

\* Bit i of x, bit 0 the lowest.
BBit(x, i) == (BLimb(x, i \div 15 + 1) \div 2^(i % 15)) % 2

\* The n lowest bits of x are all 0.
BLowZero(x, n) ==
    \A i \in 1..(n \div 15 + 1) :
        BLimb(x, i) % (IF i <= n \div 15 THEN Limb ELSE 2^(n % 15)) = 0

RECURSIVE IntTrailingZeros(_)
IntTrailingZeros(n) == IF n % 2 = 1 THEN 0 ELSE 1 + IntTrailingZeros(n \div 2)

RECURSIVE BTrailingZerosFrom(_, _)
\* Number of low zero bits of x > 0 from limb i on (of x for i = 1).
BTrailingZerosFrom(x, i) ==
    IF x[i] = 0 THEN 15 + BTrailingZerosFrom(x, i + 1) ELSE IntTrailingZeros(x[i])

RECURSIVE BFix(_, _, _)
\* <<d + rem div y, rem mod y>>, by repeated subtraction.
BFix(d, rem, y) == IF BCmp(rem, y) >= 0 THEN BFix(d + 1, BSub(rem, y), y) ELSE <<d, rem>>

\* The digit r div y estimated from below as est: the digit and r mod y.
BDigitFrom(r, y, est) == BFix(est, BSub(r, BMulSmall(y, est, 0)), y)

\* <<r div y, r mod y>> for r < y * 2^15 and y of two limbs or more whose high
\* limb has 15 bits: the digit is estimated on the high limb of y.
BDigit(r, y) ==
    IF BCmp(r, y) < 0 THEN <<0, r>>
    ELSE BDigitFrom(r, y, (BLimb(r, Len(y) + 1) * Limb + r[Len(y)]) \div (y[Len(y)] + 1))

RECURSIVE BDivLimbs(_, _, _, _)
RECURSIVE BDivNext(_, _, _, _)
\* Long division of the limbs x[1..i] by y, the remainder of the limbs above
\* being r: the quotient limbs, the high limb first, then the remainder.
BDivLimbs(x, y, i, r) ==
    IF i = 0 THEN <<r>> ELSE BDivNext(x, y, i, BDigit(BTrim(<<x[i]>> \o r), y))
BDivNext(x, y, i, d) == <<d[1]>> \o BDivLimbs(x, y, i - 1, d[2])

\* <<x div y, x mod y>> from the result of BDivLimbs on x * 2^t and y * 2^t.
BQuotRem(qr, t) == <<BTrim(BReverse(SubSeq(qr, 1, Len(qr) - 1))), BShr(qr[Len(qr)], t)>>

\* Long division of x by y, both shifted so that the high limb of y has 15 bits.
BDivShifted(x, y, t) == BQuotRem(BDivLimbs(x, y, Len(x), <<>>), t)

\* <<x div y, x mod y>> for y > 0.
BDivMod(x, y) ==
    IF Len(y) = 1 THEN <<BDivSmall(x, y[1]), BFromInt(BModSmallFrom(x, y[1], Len(x), 0))>>
    ELSE BDivShifted(BShl(x, 15 - IntBitLen(y[Len(y)])), BShl(y, 15 - IntBitLen(y[Len(y)])),
                     15 - IntBitLen(y[Len(y)]))

\* IEEE 754 binary64 values.  A finite value is <<s, m, e>>, worth s * m * 2^e:
\* s is 1 or -1 and m is odd (a big natural below 2^53), or s = 0 for zero.
\* <<1, <<>>, 0>> is +inf, <<-1, <<>>, 0>> is -inf and <<0, <<>>, 1>> is nan.
Zero == <<0, <<>>, 0>>
NaN == <<0, <<>>, 1>>
PosInf == <<1, <<>>, 0>>
NegInf == <<-1, <<>>, 0>>
IsNaN(x) == x = NaN
IsFinite(x) == x = Zero \/ x[2] # <<>>

\* The double s * m * 2^e for m below 2^53: infinite from 2^1024 on; the low
\* zero bits of m move into the exponent.
Finite(s, m, e) ==
    IF m = <<>> THEN Zero
    ELSE IF e + BBitLen(m) > 1024 THEN <<s, <<>>, 0>>
    ELSE <<s, BShr(m, BTrailingZerosFrom(m, 1)), e + BTrailingZerosFrom(m, 1)>>

\* q rounded up by one unit when the bits dropped are more than half a unit
\* (`half` and `rest`), or exactly half and q is odd.
RoundUp(q, half, rest) == IF half /\ (rest \/ BBit(q, 0) = 1) THEN BAdd(q, <<1>>) ELSE q

\* s * n * 2^e with the k low bits of n rounded away.
FRoundAt(s, n, e, sticky, k) ==
    IF k <= 0 THEN Finite(s, n, e)
    ELSE Finite(s, RoundUp(BShr(n, k), BBit(n, k - 1) = 1, sticky \/ ~BLowZero(n, k - 1)), e + k)

\* The double nearest to s * n * 2^e, ties to even; `sticky` says that the
\* exact value lies strictly above n * 2^e in magnitude (and below (n+1) * 2^e),
\* for n of 55 bits or more.  53 bits are kept, and no bit below 2^-1074.
FRound(s, n, e, sticky) == FRoundAt(s, n, e, sticky, Max(BBitLen(n) - 53, -1074 - e))

\* The Python int or float literal i.
F(i) == Finite(IF i < 0 THEN -1 ELSE 1, BFromInt(Abs(i)), 0)

FNeg(a) == IF IsNaN(a) THEN a ELSE <<-a[1], a[2], a[3]>>
FAbs(a) == IF IsNaN(a) THEN a ELSE <<Abs(a[1]), a[2], a[3]>>

\* The position above the highest bit of a finite non-zero a.
Top(a) == a[3] + BBitLen(a[2])

\* -1, 0 or 1 as |a| is below, equal to or above |b|, for finite a and b.
MagCmp(a, b) ==
    IF a = b THEN 0
    ELSE IF a = Zero THEN -1
    ELSE IF b = Zero THEN 1
    ELSE IF Top(a) < Top(b) THEN -1
    ELSE IF Top(a) > Top(b) THEN 1
    ELSE BCmp(BShl(a[2], Max(0, a[3] - b[3])), BShl(b[2], Max(0, b[3] - a[3])))

\* sa * x * 2^lo + sb * y * 2^lo rounded, c comparing x with y.
AddMagnitudes(sa, x, sb, y, lo, sticky, c) ==
    IF sa # sb /\ c = 0 THEN Zero
    ELSE FRound(IF sa = sb \/ c > 0 THEN sa ELSE sb,
                IF sa = sb THEN BAdd(x, y) ELSE IF c > 0 THEN BSub(x, y) ELSE BSub(y, x),
                lo, sticky)

AddAligned(sa, x, sb, y, lo, sticky) == AddMagnitudes(sa, x, sb, y, lo, sticky, BCmp(x, y))

\* a + b for finite non-zero a and b with Top(a) >= Top(b).  The significands
\* are aligned on the lower exponent; when b lies wholly below the last bit
\* kept of a (`far`), a is widened to 56 bits and b left as a sticky bit.
AddOrdered(a, b, far) ==
    AddAligned(a[1],
               BShl(a[2], IF far THEN 56 - BBitLen(a[2]) ELSE Max(0, a[3] - b[3])),
               b[1],
               IF far THEN (IF a[1] = b[1] THEN <<>> ELSE <<1>>)
               ELSE BShl(b[2], Max(0, b[3] - a[3])),
               IF far THEN a[3] - (56 - BBitLen(a[2])) ELSE a[3] - Max(0, a[3] - b[3]),
               far)

AddFinite(a, b, ta, tb) ==
    AddOrdered(IF ta >= tb THEN a ELSE b, IF ta >= tb THEN b ELSE a, Abs(ta - tb) > 64)

FAdd(a, b) ==
    IF IsNaN(a) \/ IsNaN(b) THEN NaN
    ELSE IF ~IsFinite(a) /\ ~IsFinite(b) THEN (IF a = b THEN a ELSE NaN)
    ELSE IF ~IsFinite(a) THEN a
    ELSE IF ~IsFinite(b) THEN b
    ELSE IF a = Zero THEN b
    ELSE IF b = Zero THEN a
    ELSE AddFinite(a, b, Top(a), Top(b))

FSub(a, b) == FAdd(a, FNeg(b))

FMul(a, b) ==
    IF IsNaN(a) \/ IsNaN(b) THEN NaN
    ELSE IF IsFinite(a) /\ IsFinite(b) THEN FRound(a[1] * b[1], BMulFrom(a[2], b[2], 1), a[3] + b[3], FALSE)
    ELSE IF a[1] * b[1] = 0 THEN NaN
    ELSE IF a[1] * b[1] > 0 THEN PosInf ELSE NegInf

\* s * 2^e times the quotient qr[1], inexact when the remainder qr[2] is not 0.
RoundQuotient(s, qr, e) == FRound(s, qr[1], e, qr[2] # <<>>)

\* a / b for finite non-zero a and b: the significand of a is widened by k
\* bits, so that the quotient has 55 bits or more.
DivFinite(a, b, k) ==
    IF b[2] = <<1>> THEN FRound(a[1] * b[1], a[2], a[3] - b[3], FALSE)
    ELSE RoundQuotient(a[1] * b[1], BDivMod(BShl(a[2], k), b[2]), a[3] - b[3] - k)

\* Division of numpy.float64 values: x/0 is nan or +-inf (a warning, no exception).
FDiv(a, b) ==
    IF IsNaN(a) \/ IsNaN(b) THEN NaN
    ELSE IF ~IsFinite(b) THEN (IF IsFinite(a) THEN Zero ELSE NaN)
    ELSE IF ~IsFinite(a) THEN (IF b[1] < 0 THEN FNeg(a) ELSE a)
    ELSE IF b = Zero THEN (IF a = Zero THEN NaN ELSE IF a[1] > 0 THEN PosInf ELSE NegInf)
    ELSE IF a = Zero THEN Zero
    ELSE DivFinite(a, b, Max(0, 55 + BBitLen(b[2]) - BBitLen(a[2])))

\* The double nearest to n/d, as the literal is read.
Q(n, d) == FDiv(F(n), F(d))

\* a < b; every comparison with nan is false.
FLt(a, b) ==
    /\ ~IsNaN(a)
    /\ ~IsNaN(b)
    /\ IF ~IsFinite(a) \/ ~IsFinite(b) THEN
           IF ~IsFinite(a) /\ ~IsFinite(b) THEN a[1] < b[1]
           ELSE IF ~IsFinite(a) THEN a[1] < 0
           ELSE b[1] > 0
       ELSE IF a[1] # b[1] THEN a[1] < b[1]
       ELSE IF a[1] > 0 THEN MagCmp(a, b) < 0
       ELSE IF a[1] < 0 THEN MagCmp(a, b) > 0
       ELSE FALSE

FGt(a, b) == FLt(b, a)

\* The number literals of the scorer and of the emission test.
One == F(1)
Two == F(2)
Ten == F(10)
Hundred == F(100)
Half == Q(1, 2)
Tenth == Q(1, 10)
Fifth == Q(2, 10)
ScoreThreshold == Q(79, 100)
WindowLow == F(-2)

\* Python's builtin min(a, b) and max(a, b): the first argument is kept unless
\* the second compares strictly smaller (greater), so min(1, nan) is 1.
PyMin(a, b) == IF FLt(b, a) THEN b ELSE a
PyMax(a, b) == IF FGt(b, a) THEN b ELSE a

\* Optional values: None, or Some(x).
None == <<>>
Some(x) == <<x>>
IsNone(o) == o = <<>>
Get(o) == o[1]

(***************************************************************************)
(* The sentiment scorer (pure functions).                                  *)
(***************************************************************************)
\* Mutant of normalize_value: the quotient is not clamped to [0, 1].
normalize_value_Unclamped(value, min_value, max_value) ==
    IF FSub(max_value, min_value) = Zero THEN Half
    ELSE FDiv(FSub(value, min_value), FSub(max_value, min_value))

\* Line 204 for the differences value - min_value and max_value - min_value:
\* max(0, min(1, quotient)), and 0.5 when the division raises ZeroDivisionError.
ClampedQuotient(above, range) ==
    IF range = Zero THEN Half ELSE PyMax(Zero, PyMin(One, FDiv(above, range)))

\* normalize_value: max(0, min(1, (value - min_value) / (max_value - min_value))),
\* and 0.5 when the range is empty (ZeroDivisionError).
normalize_value(value, min_value, max_value) ==
    ClampedQuotient(FSub(value, min_value), FSub(max_value, min_value))

\* Mutant of calculate_confidence_boost: no boost for the volume spike.
calculate_confidence_boost_NoVolumeBoost(volume_spike, price_change_percent) ==
    PyMin(IF FGt(FAbs(price_change_percent), Ten) THEN Tenth ELSE Zero, Fifth)

\* Mutant of calculate_confidence_boost: the volume boost starts at a spike of 1.
calculate_confidence_boost_LowThreshold(volume_spike, price_change_percent) ==
    PyMin(FAdd(IF FGt(volume_spike, One) THEN Tenth ELSE Zero,
               IF FGt(FAbs(price_change_percent), Ten) THEN Tenth ELSE Zero),
          Fifth)

\* calculate_confidence_boost: volume_boost is 0.1 for a volume spike above 2,
\* price_boost 0.1 for an absolute price change above 10, and the result is
\* min(volume_boost + price_boost, 0.2).
calculate_confidence_boost(volume_spike, price_change_percent) ==
    PyMin(FAdd(IF FGt(volume_spike, Two) THEN Tenth ELSE Zero,
               IF FGt(FAbs(price_change_percent), Ten) THEN Tenth ELSE Zero),
          Fifth)

\* The default weights {"volume": 0.7, "price": 0.3}.
DefaultWeights == [volume |-> Q(7, 10), price |-> Q(3, 10)]

\* Lines 170-183 for a volume spike: the two sentiments, the boost, their sum.
SpikeSentiment(volume_spike, price_change_percent) ==
    FAdd(FAdd(FMul(DefaultWeights.volume,
                   normalize_value(FAdd(volume_spike, One), Zero, Two)),
              FMul(DefaultWeights.price,
                   normalize_value(price_change_percent, Zero, Hundred))),
         calculate_confidence_boost(volume_spike, price_change_percent))

\* Line 169: (current_volume - average_volume) / average_volume.
VolumeSpike(current_volume, average_volume) ==
    FDiv(FSub(current_volume, average_volume), average_volume)

\* Mutant of SentimentScore: the score is not capped at 1.
SentimentScore_Uncapped(market_data, average_volume) ==
    SpikeSentiment(VolumeSpike(market_data.volume, average_volume),
                   market_data.price_change_percent)

\* Mutant of SentimentScore: a snapshot without close prices scores 0.
SentimentScore_NeedsHistory(market_data, average_volume) ==
    IF market_data.close_prices = <<>> THEN Zero
    ELSE PyMin(SpikeSentiment(VolumeSpike(market_data.volume, average_volume),
                              market_data.price_change_percent),
               One)

\* The try block of calculate_market_sentiment_by_volume with weights=None:
\* the weighted score plus the boost, capped at 1.
SentimentScore(market_data, average_volume) ==
    PyMin(SpikeSentiment(VolumeSpike(market_data.volume, average_volume),
                         market_data.price_change_percent),
          One)

\* calculate_market_sentiment_by_volume applied to Python numbers: dividing by
\* a zero average raises ZeroDivisionError, `except Exception` catches it and
\* the function returns None.
calculate_market_sentiment_by_volume(market_data, average_volume) ==
    IF average_volume = Zero THEN None
    ELSE Some(SentimentScore(market_data, average_volume))

\* calculate_market_sentiment_by_volume as detect_pumps calls it, the average
\* a numpy.float64: a division by zero gives nan or inf, nothing is raised and
\* a score is returned.
calculate_market_sentiment_float64(market_data, average_volume) ==
    Some(SentimentScore(market_data, average_volume))

\* Python truthiness of a score: None and 0.0 are false, everything else true.
Truthy(o) == ~IsNone(o) /\ Get(o) # Zero

\* Mutant of PassesFilter: the upper end of the price window is inclusive.
PassesFilter_Inclusive(market_sentiment, price_change) ==
    /\ Truthy(market_sentiment)
    /\ FGt(Get(market_sentiment), ScoreThreshold)
    /\ FGt(price_change, WindowLow)
    /\ ~FGt(price_change, One)

\* The emission test of detect_pumps:
\* market_sentiment and market_sentiment > 0.79 and (price_change > -2 and price_change < 1)
PassesFilter(market_sentiment, price_change) ==
    /\ Truthy(market_sentiment)
    /\ FGt(Get(market_sentiment), ScoreThreshold)
    /\ FGt(price_change, WindowLow)
    /\ FLt(price_change, One)

\* 100 * |x| as n * 2^-k, rounded to a whole number, ties to even.
Hundredths(n, k) ==
    IF k <= 0 THEN BToInt(BShl(n, -k))
    ELSE BToInt(RoundUp(BShr(n, k), BBit(n, k - 1) = 1, ~BLowZero(n, k - 1)))

\* The "{:.2f}" rendering of a finite x, in hundredths: the exact binary value
\* times 100, rounded to a whole number, ties to even.
Format2f(x) == IF x = Zero THEN 0 ELSE x[1] * Hundredths(BMulSmall(x[2], 100, 0), -x[3])

(***************************************************************************)
(* What the exchange and the webhook can answer.                           *)
(***************************************************************************)
\* A numeric JSON field, the decimal text val * 10^exp (Num(v) the whole
\* number v), and a field that does not parse as a number.  Price changes and
\* configuration values are whole numbers.
Num(v) == [ok |-> TRUE, val |-> v, exp |-> 0]
Junk == [ok |-> FALSE, val |-> 0, exp |-> 0]

UsdtSymbols ==
    <<"AAAUSDT", "BBBUSDT", "CCCUSDT", "DDDUSDT", "EEEUSDT", "FFFUSDT", "GGGUSDT">>
OtherSymbol == "ETHBTC"

\* exchangeInfo listings: data['symbols'], each with 'symbol' and 'quoteAsset'.
Listing(n) ==
    [i \in 1..n |-> [symbol |-> UsdtSymbols[i], quoteAsset |-> "USDT"]]
    \o <<[symbol |-> OtherSymbol, quoteAsset |-> "BTC"]>>

\* Outcomes of GET exchangeInfo: transport error, non-success status,
\* malformed payload, or a listing.
InfoOutcomes ==
    {[kind |-> k, symbols |-> <<>>] : k \in {"neterr", "status", "malformed"}}
    \cup {[kind |-> "ok", symbols |-> Listing(n)] : n \in {2, 7}}

\* Ticker rows for the first Len(vols) USDT symbols, in listing order.
Rows(vols, pcs) ==
    [i \in 1..Len(vols) |->
        [symbol |-> UsdtSymbols[i], volume |-> vols[i], priceChangePercent |-> pcs[i]]]

Zeros(n) == [i \in 1..n |-> Num(0)]

\* Price changes around the (-2, 1) window of the filter.
PriceChanges == {-2, -1, 0, 1, 5}

\* The 24hr-ticker payloads the exchange serves in the model.
TickerPayloads ==
    {   <<>>,
        Rows(<<Num(5)>>, <<Num(0)>>),
        Rows(<<Num(10), Num(1)>>, <<Num(0), Num(11)>>),
        Rows(<<Num(0), Num(0)>>, <<Num(0), Num(0)>>),
        Rows(<<Num(3), Num(1), Num(0), Num(0)>>, Zeros(4)),
        Rows(<<Num(7), Num(1), Num(1), Num(1)>>, Zeros(4)),
        Rows(<<Num(1), Junk, Num(0), Num(0), Num(0)>>, Zeros(5)),
        Rows(<<Num(1), Num(0), Num(0), Num(0)>>, <<Num(0), Junk, Num(0), Num(0)>>),
        <<[symbol |-> OtherSymbol, volume |-> Num(90), priceChangePercent |-> Num(0)]>>
            \o Rows(<<Num(0), Num(0), Num(0), Num(2)>>, Zeros(4))
    }
    \cup {Rows(<<Num(9), Num(9), Num(0), Num(0), Num(0), Num(0), Num(0)>>,
                <<Num(0), Num(p), Num(0), Num(0), Num(0), Num(0), Num(0)>>) :
            p \in PriceChanges}

\* Outcomes of GET ticker/24hr: failure (any exception inside the try), or rows.
TickerOutcomes ==
    {[kind |-> "fail", rows |-> <<>>]}
    \cup {[kind |-> "ok", rows |-> r] : r \in TickerPayloads}

\* Volume texts in rising order: "0", "5e-324" (the smallest double, whose
\* means underflow), "0.1" (no double), "1" and "3": volumes at, below and
\* above three times the averages they produce, with exact and rounded means.
GridVolumes ==
    <<Num(0), [ok |-> TRUE, val |-> 5, exp |-> -324], [ok |-> TRUE, val |-> 1, exp |-> -1],
      Num(1), Num(3)>>

\* The volumes (positions in GridVolumes) of the rows never decrease, or never
\* increase, down the payload.
Monotone(vols) ==
    \/ \A i \in 1..(Len(vols) - 1) : vols[i] <= vols[i + 1]
    \/ \A i \in 1..(Len(vols) - 1) : vols[i] >= vols[i + 1]

\* Every payload of up to six rows with monotone volumes of GridVolumes: the
\* first row's price change is any of PriceChanges, the others' is 0.
GridPayloads ==
    {<<>>}
    \cup UNION {{Rows([i \in 1..n |-> GridVolumes[vols[i]]], <<Num(p)>> \o Zeros(n - 1)) :
                    vols \in {v \in [1..n -> DOMAIN GridVolumes] : Monotone(v)},
                    p \in PriceChanges} :
                n \in 1..(Len(UsdtSymbols) - 1)}

GridOutcomes ==
    {[kind |-> "fail", rows |-> <<>>]}
    \cup {[kind |-> "ok", rows |-> r] : r \in GridPayloads}

\* Outcomes of GET klines for one symbol: failure (any exception inside the
\* try), or the close prices of the candles.
KlineOutcomes ==
    {[kind |-> "fail", closes |-> <<>>], [kind |-> "ok", closes |-> <<F(1), F(2)>>]}

\* Outcomes of the webhook POST: 200; a non-200 status with a JSON body; a
\* non-200 status whose body is not JSON (response.json() raises); a transport
\* error (requests.post raises).
DeliveryOutcomes == {"ok", "non200", "non200_nojson", "transport"}
Raises(o) == o \in {"non200_nojson", "transport"}

(***************************************************************************)
(* The fetchers.                                                           *)
(***************************************************************************)
RECURSIVE SelectSymbols(_)
\* [symbol_info['symbol'] for symbol_info in data['symbols']
\*     if symbol_info['quoteAsset'] == 'USDT']
SelectSymbols(symbols) ==
    IF symbols = <<>> THEN <<>>
    ELSE (IF Head(symbols).quoteAsset = "USDT" THEN <<Head(symbols).symbol>> ELSE <<>>)
         \o SelectSymbols(Tail(symbols))

Elems(seq) == {seq[i] : i \in 1..Len(seq)}

\* Mutant of CacheHit: the cache is never consulted.
CacheHit_Never(cache) == FALSE

\* fetch_binance_futures_usdt_pairs reads the cache first: a populated cache is
\* returned as it is, with no request.
CacheHit(cache) == ~IsNone(cache)

\* Mutant of CacheAfterFetch: the except branch caches its empty list.
CacheAfterFetch_CachesFailure(cache, outcome) ==
    IF outcome.kind = "ok" THEN Some(SelectSymbols(outcome.symbols)) ELSE Some(<<>>)

\* The cache after the exchangeInfo request answered `outcome`: assigned only
\* when the whole try block succeeded.
CacheAfterFetch(cache, outcome) ==
    IF outcome.kind = "ok" THEN Some(SelectSymbols(outcome.symbols)) ELSE cache

\* What fetch_binance_futures_usdt_pairs returns after the request answered
\* `outcome`: the new cache, or [] from the except branch.
PairsAfterFetch(outcome) ==
    IF outcome.kind = "ok" THEN SelectSymbols(outcome.symbols) ELSE <<>>

\* pd.to_numeric(..., errors="coerce"): nan for a text that is no number, else
\* the double nearest to val * 10^exp.  The exponents of the model are 0 down
\* to -9 and -324; 10^-324 is 0.2024... times 2^-1074, the smallest double, so
\* val * 10^-324 is read as round(val * 0.2024) times 2^-1074 (val below 10).
to_numeric(raw) ==
    IF ~raw.ok THEN NaN
    ELSE IF raw.exp >= -9 THEN Q(raw.val, 10^(-raw.exp))
    ELSE Finite(1, BFromInt((raw.val * 2024 + 5000) \div 10000), -1074)

RECURSIVE FilterRows(_, _)
\* data[data['symbol'].isin(usdt_pairs)], volume coerced, nan volumes dropped.
FilterRows(rows, usdt_pairs) ==
    IF rows = <<>> THEN <<>>
    ELSE LET r == Head(rows)
             keep == r.symbol \in Elems(usdt_pairs) /\ ~IsNaN(to_numeric(r.volume))
         IN  (IF keep
              THEN <<[symbol |-> r.symbol, volume |-> to_numeric(r.volume),
                      priceChangePercent |-> r.priceChangePercent]>>
              ELSE <<>>)
             \o FilterRows(Tail(rows), usdt_pairs)

\* Mutant of fetch_binance_data: the rows are not restricted to the universe.
fetch_binance_data_Unfiltered(usdt_pairs, outcome) ==
    IF outcome.kind = "ok"
    THEN FilterRows(outcome.rows, UsdtSymbols \o <<OtherSymbol>>)
    ELSE <<>>

\* fetch_binance_data: the filtered frame, or an empty frame on any failure.
fetch_binance_data(usdt_pairs, outcome) ==
    IF outcome.kind = "ok" THEN FilterRows(outcome.rows, usdt_pairs) ELSE <<>>

\* Mutant of fetch_historical_close_prices: no except clause, a failure
\* propagates to the caller (None stands for the exception).
fetch_historical_close_prices_Propagates(outcome) ==
    IF outcome.kind = "ok" THEN Some(outcome.closes) ELSE None

\* fetch_historical_close_prices: Some(the close prices), or Some([]) from the
\* except branch; None would be an exception that leaves the function.
fetch_historical_close_prices(outcome) ==
    IF outcome.kind = "ok" THEN Some(outcome.closes) ELSE Some(<<>>)

RECURSIVE SumVolume(_)
\* The float64 sum of the volumes, accumulated from the first row on.
SumVolume(rows) ==
    IF rows = <<>> THEN Zero
    ELSE FAdd(SumVolume(SubSeq(rows, 1, Len(rows) - 1)), rows[Len(rows)].volume)

\* data["volume"].mean()
MeanVolume(rows) == FDiv(SumVolume(rows), F(Len(rows)))

\* data.empty
IsEmptyFrame(rows) == Len(rows) = 0

(***************************************************************************)
(* Signals and messages.                                                   *)
(***************************************************************************)
MakeSignal(symbol, price_change, volume, market_sentiment, now) ==
    [symbol |-> symbol, priceChangePercent |-> price_change, volume |-> volume,
     sentiment_score |-> market_sentiment, action |-> "BUY", timestamp |-> now]

\* Mutant of AppendToLog: an earlier entry of the same symbol is replaced.
AppendToLog_Dedup(log, signal) ==
    Append(SelectSeq(log, LAMBDA e : e.symbol # signal.symbol), signal)

\* Mutant of AppendToLog: the Signal is inserted at the front of the log.
AppendToLog_Prepend(log, signal) == <<signal>> \o log

\* detected_signals.append(signal)
AppendToLog(log, signal) == Append(log, signal)

\* The message detect_pumps sends on entry.
StartMessage == [kind |-> "start", blocks |-> <<>>]

\* One block of the batch message: symbol, price change, volume, score to two
\* decimals, action, time.
Block(signal) ==
    [symbol |-> signal.symbol, priceChangePercent |-> signal.priceChangePercent,
     volume |-> signal.volume, score |-> Format2f(signal.sentiment_score),
     action |-> signal.action, timestamp |-> signal.timestamp]

\* Mutant of BatchMessage: the blocks are rendered in reverse order.
BatchMessage_Reversed(signals) ==
    [kind |-> "batch",
     blocks |-> [i \in 1..Len(signals) |-> Block(signals[Len(signals) + 1 - i])]]

\* The message send_batch_to_telegram builds: a header, then one block per
\* signal in list order.
BatchMessage(signals) ==
    [kind |-> "batch", blocks |-> [i \in 1..Len(signals) |-> Block(signals[i])]]

\* The body of the GET /signals response: {"detected_signals": [...]}.
get_signals(log) == [detected_signals |-> log]

\* `if batch_signals:` and `if not signals: return`
ShouldNotify(signals) == Len(signals) > 0

(***************************************************************************)
(* Startup: load_config and the module constants of pump_detector.py and   *)
(* telegram_bot.py.  A configuration value is None (Python's None) or      *)
(* Some(text), the text being numeric (Num(v)) or not (Junk).  A dict is a *)
(* function on its keys.                                                   *)
(***************************************************************************)
\* The defaults of the environment fallback.
DefaultPriceChangeThreshold == 5
DefaultVolumeChangeThreshold == 1000
DefaultBatchInterval == 300

\* The environment variables load_config reads.
EnvNames == {"binance_api_key", "price_change_threshold", "volume_change_threshold",
             "batch_interval", "telegram_token", "chat_id"}
NumericEnvNames == {"price_change_threshold", "volume_change_threshold", "batch_interval"}

\* A config.json that holds every key the modules read.
ConfigFile ==
    [binance_api_key |-> Some(Junk),
     price_change_threshold |-> Some(Num(DefaultPriceChangeThreshold)),
     volume_change_threshold |-> Some(Num(DefaultVolumeChangeThreshold)),
     batch_interval |-> Some(Num(DefaultBatchInterval)),
     telegram_token |-> Some(Junk),
     chat_id |-> Some(Junk)]

\* os.getenv(name, default): the variable's text, or the default when unset.
getenv(env, name, default) == IF IsNone(env[name]) THEN default ELSE env[name]

\* float(x) and int(x) of a text that is not numeric raise ValueError.
ConversionRaises(value) == ~IsNone(value) /\ ~Get(value).ok

\* What a load_config call gives: an exception, or the dict it returned.
Raised == [raised |-> TRUE, config |-> <<>>]
Returned(config) == [raised |-> FALSE, config |-> config]

\* load_config of pump_detector.py: the content of config.json, or, when the
\* file is not found, a dict built from the environment.
load_config(file, env) ==
    IF ~IsNone(file) THEN Returned(Get(file))
    ELSE LET price == getenv(env, "price_change_threshold",
                             Some(Num(DefaultPriceChangeThreshold)))
             volume == getenv(env, "volume_change_threshold",
                              Some(Num(DefaultVolumeChangeThreshold)))
             interval == getenv(env, "batch_interval", Some(Num(DefaultBatchInterval)))
         IN  IF ConversionRaises(price) \/ ConversionRaises(volume)
                \/ ConversionRaises(interval)
             THEN Raised
             ELSE Returned([BINANCE_API_KEY |-> getenv(env, "binance_api_key", None),
                            PRICE_CHANGE_THRESHOLD |-> price,
                            VOLUME_CHANGE_THRESHOLD |-> volume,
                            BATCH_INTERVAL |-> interval])

\* load_config of telegram_bot.py.
telegram_load_config(file, env) ==
    IF ~IsNone(file) THEN Returned(Get(file))
    ELSE Returned([TELEGRAM_TOKEN |-> getenv(env, "telegram_token", None),
                   CHAT_ID |-> getenv(env, "chat_id", None)])

\* The subscripts config["..."] below load_config: the module constants, or
\* KeyError when the dict lacks one of the keys.
DetectorConstants(config) ==
    IF {"binance_api_key", "price_change_threshold", "volume_change_threshold",
        "batch_interval"} \subseteq DOMAIN config
    THEN Some([BINANCE_API_KEY |-> config["binance_api_key"],
               PRICE_CHANGE_THRESHOLD |-> config["price_change_threshold"],
               VOLUME_CHANGE_THRESHOLD |-> config["volume_change_threshold"],
               BATCH_INTERVAL |-> config["batch_interval"]])
    ELSE None

TelegramConstants(config) ==
    IF {"telegram_token", "chat_id"} \subseteq DOMAIN config
    THEN Some([TELEGRAM_TOKEN |-> config["telegram_token"],
               CHAT_ID |-> config["chat_id"]])
    ELSE None

\* No environment variable is set.
NoEnv == [n \in EnvNames |-> None]

(***************************************************************************)
(* State.                                                                  *)
(***************************************************************************)
\* The scheduler thread of app.py and one further caller of detect_pumps.
Callers == {"scheduler", "other"}
Free == "free"

\* Positions inside the locked section of detect_pumps.
InCycle == {"fetching", "ticker", "scoring", "notifying"}

VARIABLES
    pc,                 \* position of each caller
    lock,               \* holder of the cycle lock, or Free
    usdt_pairs_cache,   \* None or Some(list of symbols)
    detected_signals,   \* the signal log
    clock,              \* logical time: invocations started so far
    usdt_pairs,         \* local of detect_pumps, per caller
    data,               \* local: the snapshot frame
    average_volume,     \* local
    batch_signals,      \* local
    idx,                \* local: next row of data.iterrows()
    close_prices,       \* local: result of the last history fetch
    sent,               \* per caller: webhook calls of the invocation
    result,             \* per caller: how the invocation ended
    queued,             \* per caller: it found the lock held and waited for it
    ticker,             \* per caller: the ticker answer of the invocation
    appended,           \* per caller: log appends made by the invocation
    info,               \* per caller: what the universe resolution did
    call,               \* a direct application of a scorer function: name, arguments
    ret,                \* None, or Some(what the application returned)
    startup,            \* the import of the modules: position, file, environment
    response,           \* None, or Some(body of the last GET /signals response)
    market              \* which 24hr-ticker payloads the exchange serves

vars == <<pc, lock, usdt_pairs_cache, detected_signals, clock, usdt_pairs, data,
          average_volume, batch_signals, idx, close_prices, sent, result, queued,
          ticker, appended, info, call, ret, startup, response, market>>

\* What no step of detect_pumps touches.
outside == <<call, ret, startup, response, market>>

locals == <<usdt_pairs, data, average_volume, batch_signals, idx, close_prices>>

NoTicker == [kind |-> "none", rows |-> <<>>]

\* The module globals of pump_detector.py after import, and no caller inside
\* detect_pumps.
Constructed(threads) ==
    /\ pc = [c \in Callers |-> IF c \in threads THEN "idle" ELSE "absent"]
    /\ lock = Free
    /\ usdt_pairs_cache = None
    /\ detected_signals = <<>>
    /\ clock = 0
    /\ usdt_pairs = [c \in Callers |-> <<>>]
    /\ data = [c \in Callers |-> <<>>]
    /\ average_volume = [c \in Callers |-> F(0)]
    /\ batch_signals = [c \in Callers |-> <<>>]
    /\ idx = [c \in Callers |-> 1]
    /\ close_prices = [c \in Callers |-> <<>>]
    /\ sent = [c \in Callers |-> <<>>]
    /\ result = [c \in Callers |-> "none"]
    /\ queued = [c \in Callers |-> FALSE]
    /\ ticker = [c \in Callers |-> NoTicker]
    /\ appended = [c \in Callers |-> 0]
    /\ info = [c \in Callers |-> "none"]

\* No scorer function is applied on its own.
NoCall == [fn |-> "none", args |-> <<>>]

\* The process started from a complete config.json: both modules imported,
\* the scheduler thread running.
Started ==
    [phase |-> "running", file |-> Some(ConfigFile), env |-> NoEnv,
     constants |-> Get(TelegramConstants(ConfigFile)) @@ Get(DetectorConstants(ConfigFile))]

\* The running service: everything constructed, no request served yet.
Init ==
    /\ Constructed(Callers)
    /\ call = NoCall
    /\ ret = None
    /\ startup = Started
    /\ response = None
    /\ market = "sample"

(***************************************************************************)
(* Operations.                                                             *)
(***************************************************************************)
\* Mutant of LockAvailable: the lock is not consulted.
LockAvailable_Ignored(l) == TRUE

\* `with lock:` enters only while no caller holds the lock.
LockAvailable(l) == l = Free

\* Mutant of ReleaseOnException: an exception leaves the with block without
\* releasing the lock.
ReleaseOnException_Kept(l, c) == l

\* The lock after an exception has left detect_pumps: `with lock:` releases
\* it if c had entered the block.
ReleaseOnException(l, c) == IF l = c THEN Free ELSE l

\* One webhook call of the invocation, with how the POST went.
Sent(message, outcome) == [message |-> message, outcome |-> outcome]

\* batch_processor's loop (or another caller) calls detect_pumps.
Trigger(c) ==
    /\ pc[c] = "idle"
    /\ clock < MaxCycles
    /\ clock' = clock + 1
    /\ pc' = [pc EXCEPT ![c] = "start"]
    /\ result' = [result EXCEPT ![c] = "running"]
    /\ UNCHANGED <<outside, lock, usdt_pairs_cache, detected_signals, locals, sent, queued,
                   ticker, appended, info>>

\* send_telegram_message("Signal Detection started..") before the lock is
\* taken; an exception of the POST propagates.
SendStart(c) ==
    /\ pc[c] = "start"
    /\ \E o \in DeliveryOutcomes :
        /\ sent' = [sent EXCEPT ![c] = Append(@, Sent(StartMessage, o))]
        /\ pc' = [pc EXCEPT ![c] = IF Raises(o) THEN "raising" ELSE "lockwait"]
    /\ UNCHANGED <<outside, lock, usdt_pairs_cache, detected_signals, clock, locals, result,
                   queued, ticker, appended, info>>

\* `with lock:` finds the lock held and blocks.
BlockOnLock(c) ==
    /\ pc[c] = "lockwait"
    /\ ~LockAvailable(lock)
    /\ pc' = [pc EXCEPT ![c] = "blocked"]
    /\ UNCHANGED <<outside, lock, usdt_pairs_cache, detected_signals, clock, locals, sent,
                   result, queued, ticker, appended, info>>

\* `with lock:` acquires the lock, at once or after having blocked.
AcquireLock(c) ==
    /\ pc[c] \in {"lockwait", "blocked"}
    /\ LockAvailable(lock)
    /\ lock' = c
    /\ queued' = [queued EXCEPT ![c] = (pc[c] = "blocked")]
    /\ pc' = [pc EXCEPT ![c] = "fetching"]
    /\ UNCHANGED <<outside, usdt_pairs_cache, detected_signals, clock, locals, sent, result,
                   ticker, appended, info>>

\* usdt_pairs = fetch_binance_futures_usdt_pairs()
FetchPairs(c) ==
    /\ pc[c] = "fetching"
    /\ IF CacheHit(usdt_pairs_cache)
       THEN /\ usdt_pairs' = [usdt_pairs EXCEPT ![c] = Get(usdt_pairs_cache)]
            /\ info' = [info EXCEPT ![c] = "cached"]
            /\ UNCHANGED usdt_pairs_cache
       ELSE \E o \in InfoOutcomes :
            /\ usdt_pairs_cache' = CacheAfterFetch(usdt_pairs_cache, o)
            /\ usdt_pairs' = [usdt_pairs EXCEPT ![c] = PairsAfterFetch(o)]
            /\ info' = [info EXCEPT ![c] = o.kind]
    /\ pc' = [pc EXCEPT ![c] = "ticker"]
    /\ UNCHANGED <<outside, lock, detected_signals, clock, data, average_volume, batch_signals,
                   idx, close_prices, sent, result, queued, ticker, appended>>

\* What GET ticker/24hr can answer: the sample payloads, or the whole grid.
TickerFeed == IF market = "grid" THEN GridOutcomes ELSE TickerOutcomes

\* data = fetch_binance_data(usdt_pairs); the empty-frame return; the average.
FetchData(c) ==
    /\ pc[c] = "ticker"
    /\ \E o \in TickerFeed :
        LET d == fetch_binance_data(usdt_pairs[c], o) IN
        /\ ticker' = [ticker EXCEPT ![c] = o]
        /\ data' = [data EXCEPT ![c] = d]
        /\ IF IsEmptyFrame(d)
           THEN /\ pc' = [pc EXCEPT ![c] = "exiting"]
                /\ result' = [result EXCEPT ![c] = "skipped"]
                /\ UNCHANGED average_volume
           ELSE /\ pc' = [pc EXCEPT ![c] = "scoring"]
                /\ average_volume' = [average_volume EXCEPT ![c] = MeanVolume(d)]
                /\ UNCHANGED result
    /\ UNCHANGED <<outside, lock, usdt_pairs_cache, detected_signals, clock, usdt_pairs,
                   batch_signals, idx, close_prices, sent, queued, appended, info>>

\* One iteration of `for _, row in data.iterrows()`.
ScoreRow(c) ==
    /\ pc[c] = "scoring"
    /\ LET row == data[c][idx[c]] IN
       IF ~row.priceChangePercent.ok
       THEN \* float(row["priceChangePercent"]) raises ValueError
            /\ pc' = [pc EXCEPT ![c] = "raising"]
            /\ UNCHANGED <<detected_signals, batch_signals, idx, close_prices, appended>>
       ELSE \E k \in KlineOutcomes :
            LET symbol == row.symbol
                price_change == F(row.priceChangePercent.val)
                volume == row.volume
                fetched == fetch_historical_close_prices(k)
                market_data == [volume |-> volume, price_change_percent |-> price_change,
                                close_prices |-> Get(fetched)]
                market_sentiment ==
                    calculate_market_sentiment_float64(market_data, average_volume[c])
                signal == MakeSignal(symbol, price_change, volume,
                                     Get(market_sentiment), clock)
            IN  IF IsNone(fetched)
                THEN \* an exception of the history fetch would leave the loop
                     /\ pc' = [pc EXCEPT ![c] = "raising"]
                     /\ UNCHANGED <<detected_signals, batch_signals, idx, close_prices,
                                    appended>>
                ELSE /\ close_prices' = [close_prices EXCEPT ![c] = Get(fetched)]
                     /\ IF PassesFilter(market_sentiment, price_change)
                        THEN /\ batch_signals' =
                                    [batch_signals EXCEPT ![c] = Append(@, signal)]
                             /\ detected_signals' = AppendToLog(detected_signals, signal)
                             /\ appended' = [appended EXCEPT ![c] = @ + 1]
                        ELSE UNCHANGED <<batch_signals, detected_signals, appended>>
                     /\ idx' = [idx EXCEPT ![c] = @ + 1]
                     /\ pc' = [pc EXCEPT ![c] =
                                 IF idx[c] = Len(data[c]) THEN "notifying" ELSE "scoring"]
    /\ UNCHANGED <<outside, lock, usdt_pairs_cache, clock, usdt_pairs, data, average_volume,
                   sent, result, queued, ticker, info>>

\* `if batch_signals: send_batch_to_telegram(batch_signals)`
Notify(c) ==
    /\ pc[c] = "notifying"
    /\ IF ShouldNotify(batch_signals[c])
       THEN \E o \in DeliveryOutcomes :
            /\ sent' = [sent EXCEPT ![c] = Append(@, Sent(BatchMessage(batch_signals[c]), o))]
            /\ pc' = [pc EXCEPT ![c] = IF Raises(o) THEN "raising" ELSE "exiting"]
            /\ result' = [result EXCEPT ![c] = IF Raises(o) THEN @ ELSE "completed"]
       ELSE /\ pc' = [pc EXCEPT ![c] = "exiting"]
            /\ result' = [result EXCEPT ![c] = "completed"]
            /\ UNCHANGED sent
    /\ UNCHANGED <<outside, lock, usdt_pairs_cache, detected_signals, clock, locals, queued,
                   ticker, appended, info>>

\* What leaving detect_pumps does to its frame: the locals and the record of
\* the invocation are gone.
ClearFrame(c) ==
    /\ usdt_pairs' = [usdt_pairs EXCEPT ![c] = <<>>]
    /\ data' = [data EXCEPT ![c] = <<>>]
    /\ average_volume' = [average_volume EXCEPT ![c] = F(0)]
    /\ batch_signals' = [batch_signals EXCEPT ![c] = <<>>]
    /\ idx' = [idx EXCEPT ![c] = 1]
    /\ close_prices' = [close_prices EXCEPT ![c] = <<>>]
    /\ sent' = [sent EXCEPT ![c] = <<>>]
    /\ queued' = [queued EXCEPT ![c] = FALSE]
    /\ ticker' = [ticker EXCEPT ![c] = NoTicker]
    /\ appended' = [appended EXCEPT ![c] = 0]
    /\ info' = [info EXCEPT ![c] = "none"]

\* The with block ends (the lock is released), detect_pumps returns and
\* batch_processor sleeps BATCH_INTERVAL before its next iteration.
Exit(c) ==
    /\ pc[c] = "exiting"
    /\ lock' = Free
    /\ pc' = [pc EXCEPT ![c] = "idle"]
    /\ result' = [result EXCEPT ![c] = "none"]
    /\ ClearFrame(c)
    /\ UNCHANGED <<outside, usdt_pairs_cache, detected_signals, clock>>

\* An exception leaves detect_pumps (the with block releases a held lock) and
\* then batch_processor, which has no handler: the calling thread ends.
Unwind(c) ==
    /\ pc[c] = "raising"
    /\ lock' = ReleaseOnException(lock, c)
    /\ pc' = [pc EXCEPT ![c] = "crashed"]
    /\ result' = [result EXCEPT ![c] = "raised"]
    /\ ClearFrame(c)
    /\ UNCHANGED <<outside, usdt_pairs_cache, detected_signals, clock>>

Next ==
    \E c \in Callers :
        \/ Trigger(c)
        \/ SendStart(c)
        \/ BlockOnLock(c)
        \/ AcquireLock(c)
        \/ FetchPairs(c)
        \/ FetchData(c)
        \/ ScoreRow(c)
        \/ Notify(c)
        \/ Exit(c)
        \/ Unwind(c)

Spec == Init /\ [][Next]_vars

(***************************************************************************)
(* The scorer's functions applied on their own, to arguments drawn from    *)
(* bounded sets.                                                           *)
(***************************************************************************)
\* Halves between -MaxValue and MaxValue.
Values == {Q(i, 2) : i \in (-2 * MaxValue)..(2 * MaxValue)}
Ends == {F(i) : i \in (-MaxValue)..MaxValue}

\* normalize_value is applied to two values over the same range.
NormalizeCalls ==
    {[fn |-> "normalize_value", args |-> <<v1, v2, lo, hi>>] :
        v1 \in Values, v2 \in Values, lo \in Ends, hi \in Ends}

\* Volumes, averages and price changes the scorer is applied to.
ScoreVolumes == {F(i) : i \in -1..MaxVolume}
ScoreAverages == {Q(n, d) : n \in -1..MaxVolume, d \in {1, 2, 3}}
ScorePriceChanges ==
    {F(p) : p \in {-150, -11, -10, -2, -1, 0, 1, 5, 10, 11, 50, 100, 150}}

\* The average is a numpy.float64 (numpy = TRUE) or a Python float.
ScoreCalls ==
    {[fn |-> "calculate_market_sentiment_by_volume",
      args |-> [volume |-> v, price_change_percent |-> p, average_volume |-> a,
                numpy |-> n]] :
        v \in ScoreVolumes, p \in ScorePriceChanges, a \in ScoreAverages, n \in BOOLEAN}

InitPure ==
    /\ Constructed(Callers)
    /\ call \in NormalizeCalls \cup ScoreCalls
    /\ ret = None
    /\ startup = Started
    /\ response = None
    /\ market = "sample"

ApplyNormalize ==
    /\ call.fn = "normalize_value"
    /\ ret = None
    /\ ret' = Some(<<normalize_value(call.args[1], call.args[3], call.args[4]),
                     normalize_value(call.args[2], call.args[3], call.args[4])>>)
    /\ UNCHANGED <<pc, lock, usdt_pairs_cache, detected_signals, clock, locals, sent,
                   result, queued, ticker, appended, info, call, startup, response,
                   market>>

ApplyScore ==
    /\ call.fn = "calculate_market_sentiment_by_volume"
    /\ ret = None
    /\ LET market_data == [volume |-> call.args.volume,
                           price_change_percent |-> call.args.price_change_percent,
                           close_prices |-> <<>>]
       IN  ret' = Some(IF call.args.numpy
                       THEN calculate_market_sentiment_float64(
                                market_data, call.args.average_volume)
                       ELSE calculate_market_sentiment_by_volume(
                                market_data, call.args.average_volume))
    /\ UNCHANGED <<pc, lock, usdt_pairs_cache, detected_signals, clock, locals, sent,
                   result, queued, ticker, appended, info, call, startup, response,
                   market>>

NextPure == ApplyNormalize \/ ApplyScore

SpecPure == InitPure /\ [][NextPure]_vars

(***************************************************************************)
(* Startup: app.py imports pump_detector, which first imports telegram_bot *)
(* and then loads its own configuration; app.py then starts the scheduler  *)
(* thread.                                                                 *)
(***************************************************************************)
\* What an environment variable can hold: nothing, a numeric text, other text.
EnvValues(name) ==
    IF name \in NumericEnvNames THEN {None, Some(Num(7)), Some(Junk)}
    ELSE {None, Some(Junk)}

Environments == {env \in [EnvNames -> {None, Some(Num(7)), Some(Junk)}] :
                    \A n \in EnvNames : env[n] \in EnvValues(n)}

\* Before the first import: config.json is present or not, no thread exists.
InitBoot ==
    /\ Constructed({})
    /\ call = NoCall
    /\ ret = None
    /\ \E file \in {None, Some(ConfigFile)}, env \in Environments :
        startup = [phase |-> "telegram_bot", file |-> file, env |-> env,
                   constants |-> <<>>]
    /\ response = None
    /\ market = "sample"

\* A step of the startup leaves the detector's state alone.
BootFrame ==
    UNCHANGED <<lock, usdt_pairs_cache, detected_signals, clock, locals, sent, result,
                queued, ticker, appended, info, call, ret, response, market>>

\* telegram_bot.py: config = load_config(), then TELEGRAM_TOKEN and CHAT_ID.
ImportTelegram ==
    /\ startup.phase = "telegram_bot"
    /\ LET loaded == telegram_load_config(startup.file, startup.env)
           constants == IF loaded.raised THEN None ELSE TelegramConstants(loaded.config)
       IN  startup' =
               IF IsNone(constants)
               THEN [startup EXCEPT !.phase = "failed"]
               ELSE [startup EXCEPT !.phase = "pump_detector",
                                    !.constants = Get(constants)]
    /\ UNCHANGED pc
    /\ BootFrame

\* pump_detector.py: config = load_config(), then the four constants.
ImportDetector ==
    /\ startup.phase = "pump_detector"
    /\ LET loaded == load_config(startup.file, startup.env)
           constants == IF loaded.raised THEN None ELSE DetectorConstants(loaded.config)
       IN  startup' =
               IF IsNone(constants)
               THEN [startup EXCEPT !.phase = "failed"]
               ELSE [startup EXCEPT !.phase = "app",
                                    !.constants = @ @@ Get(constants)]
    /\ UNCHANGED pc
    /\ BootFrame

\* app.py: the scheduler thread is started.
StartThread ==
    /\ startup.phase = "app"
    /\ startup' = [startup EXCEPT !.phase = "running"]
    /\ pc' = [pc EXCEPT !["scheduler"] = "idle"]
    /\ BootFrame

NextBoot == ImportTelegram \/ ImportDetector \/ StartThread

SpecBoot == InitBoot /\ [][NextBoot]_vars

(***************************************************************************)
(* The service as app.py runs it: the scheduler thread is the only caller  *)
(* of detect_pumps, so no caller ever finds the lock held.                 *)
(***************************************************************************)
InitSolo ==
    /\ Constructed({"scheduler"})
    /\ call = NoCall
    /\ ret = None
    /\ startup = Started
    /\ response = None
    /\ market = "sample"

NextSolo ==
    \E c \in Callers :
        \/ Trigger(c)
        \/ SendStart(c)
        \/ AcquireLock(c)
        \/ FetchPairs(c)
        \/ FetchData(c)
        \/ ScoreRow(c)
        \/ Notify(c)
        \/ Exit(c)
        \/ Unwind(c)

SpecSolo == InitSolo /\ [][NextSolo]_vars

\* A request thread of the web server serves GET /signals: it reads the shared
\* log, at any moment of a cycle.
GetSignals ==
    /\ startup.phase = "running"
    /\ response' = Some(get_signals(detected_signals))
    /\ UNCHANGED <<pc, lock, usdt_pairs_cache, detected_signals, clock, locals, sent,
                   result, queued, ticker, appended, info, call, ret, startup, market>>

NextServer == NextSolo \/ GetSignals

SpecServer == InitSolo /\ [][NextServer]_vars

\* The first cycle of the service over every payload of the grid.
InitGrid ==
    /\ Constructed({"scheduler"})
    /\ call = NoCall
    /\ ret = None
    /\ startup = Started
    /\ response = None
    /\ market = "grid"

\* The first call of detect_pumps.
FirstTrigger(c) == Trigger(c) /\ clock = 0

NextGrid ==
    \E c \in Callers :
        \/ FirstTrigger(c)
        \/ SendStart(c)
        \/ AcquireLock(c)
        \/ FetchPairs(c)
        \/ FetchData(c)
        \/ ScoreRow(c)
        \/ Notify(c)
        \/ Exit(c)
        \/ Unwind(c)

SpecGrid == InitGrid /\ [][NextGrid]_vars

(***************************************************************************)
(* Properties.                                                             *)
(***************************************************************************)
IsPrefix(s, t) == Len(s) <= Len(t) /\ SubSeq(t, 1, Len(s)) = s

InfoFailures == {"neterr", "status", "malformed"}

\* The raw answers of the invocation leave no snapshot: the universe could not
\* be resolved, the ticker request failed, or no row is a universe symbol
\* with a numeric volume.
EmptySnapshot(c) ==
    /\ ticker[c].kind # "none"
    /\ \A i \in 1..Len(ticker[c].rows) :
        ~(ticker[c].rows[i].symbol \in Elems(usdt_pairs[c]) /\ ticker[c].rows[i].volume.ok)

\* The webhook calls of c's invocation that carry a batch message.
BatchCalls(c) == {i \in 1..Len(sent[c]) : sent[c][i].message.kind = "batch"}

\* C1: no two callers are inside a detection cycle (fetching, scoring or
\* notifying) at the same time.
C1_AtMostOneCycle ==
    \A c1, c2 \in Callers :
        c1 # c2 => ~(pc[c1] \in InCycle /\ pc[c2] \in InCycle)

\* One caller runs a cycle while the other is blocked on the lock.
C1_Witness ==
    \E c1, c2 \in Callers : pc[c1] \in InCycle /\ pc[c2] = "blocked"

\* C2: a trigger that found another cycle running never runs a cycle itself
\* (it is rejected, not queued).
C2_ContendedTriggerNeverRuns ==
    \A c \in Callers : queued[c] => pc[c] \notin InCycle

\* C3 as stated: an invocation whose snapshot batch is empty makes no webhook
\* call at all.
C3_NoCallAtAll ==
    \A c \in Callers : result[c] = "skipped" => Len(sent[c]) = 0

\* C3 amended: an invocation whose snapshot batch is empty (universe or ticker
\* fetch failed, or no row matched) skips scoring, appends no Signal and sends
\* no batch message; its only webhook call is the start message sent on entry.
C3_EmptyBatchNoSignalNoBatchMessage ==
    \A c \in Callers :
        /\ EmptySnapshot(c) =>
            /\ pc[c] = "exiting"
            /\ result[c] = "skipped"
        /\ result[c] = "skipped" =>
            /\ EmptySnapshot(c)
            /\ appended[c] = 0
            /\ batch_signals[c] = <<>>
            /\ BatchCalls(c) = {}
            /\ Len(sent[c]) = 1
            /\ sent[c][1].message = StartMessage

\* An invocation has skipped its cycle because no ticker row matched the
\* universe, having sent only the start message.
C3_Witness ==
    \E c \in Callers :
        /\ result[c] = "skipped"
        /\ ticker[c].kind = "ok"
        /\ ticker[c].rows # <<>>
        /\ Len(sent[c]) = 1

\* C4: no failure of an external call ends the scheduler: its thread never
\* leaves batch_processor's loop.
C4_SchedulerNeverExits ==
    pc["scheduler"] \notin {"raising", "crashed"}

\* C5: once the universe cache is populated it never changes, and every later
\* resolution returns it without an exchangeInfo request.
C5_CacheNeverChanges ==
    [][usdt_pairs_cache # None =>
        /\ usdt_pairs_cache' = usdt_pairs_cache
        /\ \A c \in Callers :
            (pc[c] = "fetching" /\ pc'[c] # "fetching") =>
                /\ info'[c] = "cached"
                /\ usdt_pairs'[c] = Get(usdt_pairs_cache)]_vars

\* A later cycle resolves the universe from the populated cache.
C5_Witness ==
    \E c \in Callers :
        /\ info[c] = "cached"
        /\ usdt_pairs[c] # <<>>
        /\ usdt_pairs[c] = Get(usdt_pairs_cache)

\* C6: a failed exchangeInfo fetch returns an empty list and leaves the cache
\* unpopulated, and a resolution that finds the cache unpopulated issues the
\* request.
C6_FailedFetchNotCached ==
    [][\A c \in Callers :
        /\ info'[c] \in InfoFailures =>
            /\ usdt_pairs'[c] = <<>>
            /\ usdt_pairs_cache' = None
        /\ (pc[c] = "fetching" /\ pc'[c] # "fetching" /\ usdt_pairs_cache = None) =>
            info'[c] \in InfoFailures \cup {"ok"}]_vars

\* A caller that waited for another caller's cycle (whose resolution left the
\* cache unpopulated) has issued the request again, and it failed again.
C6_Witness ==
    \E c \in Callers :
        /\ queued[c]
        /\ info[c] \in InfoFailures
        /\ usdt_pairs_cache = None

\* The Signal the claim expects for the row c's loop is at.
ExpectedSignal(c) ==
    LET row == data[c][idx[c]]
        p == F(row.priceChangePercent.val)
        score == calculate_market_sentiment_float64(
                    [volume |-> row.volume, price_change_percent |-> p,
                     close_prices |-> <<>>], average_volume[c])
    IN  [emit |-> /\ ~IsNone(score)
                  /\ FGt(Get(score), Q(79, 100))
                  /\ FGt(p, F(-2))
                  /\ FLt(p, F(1)),
         symbol |-> row.symbol,
         price |-> p,
         volume |-> row.volume,
         score |-> score]

\* C7: each snapshot the loop processes becomes a Signal if and only if its
\* score is not None and above 0.79 and its price change is inside (-2, 1); the
\* Signal goes to the local batch and to the log, and nothing else is appended
\* to either.
C7_EmittedIffFilter ==
    [][/\ \A c \in Callers :
            (pc[c] = "scoring" /\ idx'[c] = idx[c] + 1) =>
                LET e == ExpectedSignal(c) IN
                IF e.emit
                THEN /\ Len(detected_signals') = Len(detected_signals) + 1
                     /\ IsPrefix(detected_signals, detected_signals')
                     /\ batch_signals'[c] = Append(batch_signals[c],
                                                   detected_signals'[Len(detected_signals')])
                     /\ detected_signals'[Len(detected_signals')].symbol = e.symbol
                     /\ detected_signals'[Len(detected_signals')].priceChangePercent = e.price
                     /\ detected_signals'[Len(detected_signals')].volume = e.volume
                     /\ detected_signals'[Len(detected_signals')].sentiment_score = Get(e.score)
                     /\ detected_signals'[Len(detected_signals')].action = "BUY"
                ELSE /\ detected_signals' = detected_signals
                     /\ batch_signals'[c] = batch_signals[c]
       /\ (\A c \in Callers : ~(pc[c] = "scoring" /\ idx'[c] = idx[c] + 1)) =>
            /\ detected_signals' = detected_signals
            /\ \A c \in Callers :
                batch_signals'[c] = batch_signals[c] \/ batch_signals'[c] = <<>>
       /\ \A i \in 1..Len(detected_signals') :
            detected_signals'[i].priceChangePercent # F(5)]_vars

\* A cycle has emitted one row of its batch and rejected another row whose
\* volume is above three times the average but whose price change is 5.
C7_Witness ==
    \E c \in Callers :
        /\ pc[c] = "notifying"
        /\ Len(batch_signals[c]) = 1
        /\ \E i \in 1..Len(data[c]) :
            /\ data[c][i].priceChangePercent = Num(5)
            /\ FGt(data[c][i].volume, FMul(F(3), average_volume[c]))

\* C8: the log is append-only (every step leaves the earlier log as a prefix
\* of the later one), and an emitted Signal is appended even when an equal
\* Signal of an earlier cycle is already in the log.
C8_AppendOnly ==
    [][/\ IsPrefix(detected_signals, detected_signals')
       /\ \A c \in Callers :
            Len(batch_signals'[c]) > Len(batch_signals[c]) =>
                Len(detected_signals') = Len(detected_signals) + 1]_vars

\* Two cycles over the same data have left the same Signal in the log twice,
\* with the same score and different timestamps.
C8_Witness ==
    \E i, j \in 1..Len(detected_signals) :
        /\ i < j
        /\ detected_signals[i].symbol = detected_signals[j].symbol
        /\ detected_signals[i].volume = detected_signals[j].volume
        /\ detected_signals[i].priceChangePercent = detected_signals[j].priceChangePercent
        /\ detected_signals[i].sentiment_score = detected_signals[j].sentiment_score
        /\ detected_signals[i].timestamp # detected_signals[j].timestamp

\* C9: after a failed delivery of the batch message (non-200 or transport
\* failure) the cycle still completes and goes back to idle.
C9_FailedDeliveryCycleCompletes ==
    \A c \in Callers :
        (\E i \in BatchCalls(c) : sent[c][i].outcome # "ok") =>
            /\ pc[c] = "exiting"
            /\ result[c] = "completed"

\* The loop of c's cycle has run over every row of a non-empty frame.
ScoringDone(c) == data[c] # <<>> /\ idx[c] > Len(data[c])

\* C10 as stated: a cycle with a non-empty batch makes exactly one webhook call
\* during the whole invocation, a cycle with an empty batch none.
C10_ExactlyOneCallPerInvocation ==
    \A c \in Callers :
        pc[c] = "exiting" =>
            Len(sent[c]) = IF batch_signals[c] # <<>> THEN 1 ELSE 0

\* C10 amended: every invocation first sends the start message; besides it, a
\* cycle that finishes scoring with a non-empty batch makes exactly one webhook
\* call, whose message has one block per Signal of the batch in batch order;
\* a cycle whose batch is empty, and a cycle that an exception ends before the
\* end of scoring, make none.
C10_OneBatchMessage ==
    \A c \in Callers :
        /\ pc[c] \in InCycle \cup {"lockwait", "blocked", "exiting", "raising"} =>
            /\ Len(sent[c]) >= 1
            /\ sent[c][1].message = StartMessage
        /\ Len(sent[c]) = Cardinality(BatchCalls(c))
                          + (IF pc[c] \in {"idle", "start", "crashed"} THEN 0 ELSE 1)
        /\ BatchCalls(c) =
            IF pc[c] \in {"exiting", "raising"} /\ ScoringDone(c) /\ batch_signals[c] # <<>>
            THEN {2} ELSE {}
        /\ \A k \in BatchCalls(c) :
            LET blocks == sent[c][k].message.blocks IN
            /\ Len(blocks) = Len(batch_signals[c])
            /\ \A i \in 1..Len(blocks) :
                /\ blocks[i].symbol = batch_signals[c][i].symbol
                /\ blocks[i].priceChangePercent = batch_signals[c][i].priceChangePercent
                /\ blocks[i].volume = batch_signals[c][i].volume
                /\ blocks[i].timestamp = batch_signals[c][i].timestamp
                /\ blocks[i].action = "BUY"
                /\ LET x == batch_signals[c][i].sentiment_score IN
                   /\ ~FLt(x, Q(2 * blocks[i].score - 1, 200))
                   /\ ~FGt(x, Q(2 * blocks[i].score + 1, 200))

\* A cycle has sent the batch message for a batch of two Signals.
C10_Witness ==
    \E c \in Callers :
        /\ pc[c] = "exiting"
        /\ Len(batch_signals[c]) = 2
        /\ batch_signals[c][1].symbol # batch_signals[c][2].symbol
        /\ Len(sent[c]) = 2

\* The direct application under study is of the scorer, and has returned.
Scored == call.fn = "calculate_market_sentiment_by_volume" /\ ~IsNone(ret)

\* C11: whenever average_volume is 0, calculate_market_sentiment_by_volume
\* returns exactly 0.5, whatever the volume and the price change.
C11_ZeroAverageScoresHalf ==
    (Scored /\ call.args.average_volume = F(0)) => Get(ret) = Some(Q(1, 2))

\* c's loop is at a row whose price change converts, so the iteration reaches
\* the history fetch, and the step is c's.
FetchesHistory(c) ==
    /\ pc[c] = "scoring"
    /\ data[c][idx[c]].priceChangePercent.ok
    /\ (idx'[c] # idx[c] \/ pc'[c] # pc[c])

\* C12: an iteration of the loop survives a failed history fetch: whatever the
\* fetch answered, the cycle is not aborted, the loop goes on to the next
\* snapshot (to the notification after the last one) with the frame, the
\* average and the earlier Signals untouched, and the snapshot is emitted or
\* not exactly as it would be under any other answer of the fetch.
C12_HistoryFailureIsolated ==
    [][\A c \in Callers :
        FetchesHistory(c) =>
            LET row == data[c][idx[c]]
                p == F(row.priceChangePercent.val)
                emitted == Len(batch_signals'[c]) = Len(batch_signals[c]) + 1
            IN  /\ pc'[c] = IF idx[c] = Len(data[c]) THEN "notifying" ELSE "scoring"
                /\ idx'[c] = idx[c] + 1
                /\ lock' = c
                /\ data'[c] = data[c]
                /\ average_volume'[c] = average_volume[c]
                /\ IsPrefix(batch_signals[c], batch_signals'[c])
                /\ Len(batch_signals'[c]) <= Len(batch_signals[c]) + 1
                /\ \A k \in KlineOutcomes :
                    emitted <=>
                        PassesFilter(
                            calculate_market_sentiment_float64(
                                [volume |-> row.volume, price_change_percent |-> p,
                                 close_prices |-> k.closes],
                                average_volume[c]),
                            p)]_vars

\* A cycle over seven snapshots has reached the notification with both of its
\* Signals although the history fetch of the last snapshot failed.
C12_Witness ==
    \E c \in Callers :
        /\ pc[c] = "notifying"
        /\ Len(data[c]) = 7
        /\ close_prices[c] = <<>>
        /\ Len(batch_signals[c]) = 2

\* C13: when config.json is missing the startup does not fail: the modules
\* take their configuration from the environment and the process reaches its
\* running state.
C13_StartsWithoutConfigFile ==
    IsNone(startup.file) => startup.phase # "failed"

\* The fields of a fully constructed Signal.
SignalFields ==
    {"symbol", "priceChangePercent", "volume", "sentiment_score", "action", "timestamp"}

\* C14: a GET /signals response holds a prefix of the log as the log stands at
\* the time of the read and at every later time, made of fully constructed
\* Signals only, and serving the request leaves the log as it was.
C14_ReadsArePrefixes ==
    [][/\ ~IsNone(response') =>
            LET body == Get(response').detected_signals IN
            /\ IsPrefix(body, detected_signals')
            /\ \A i \in 1..Len(body) :
                /\ DOMAIN body[i] = SignalFields
                /\ body[i].action = "BUY"
                /\ IsFinite(body[i].sentiment_score)
       /\ response' # response =>
            /\ detected_signals' = detected_signals
            /\ Get(response').detected_signals = detected_signals]_vars

\* A request was served in the middle of a cycle, after the cycle's first
\* append, and the cycle has appended another Signal since.
C14_Witness ==
    /\ ~IsNone(response)
    /\ Len(Get(response).detected_signals) = 1
    /\ Len(detected_signals) = 2
    /\ \E c \in Callers : pc[c] = "scoring" /\ Len(batch_signals[c]) = 2

\* C15: for every positive average, non-negative volume and finite price
\* change the scorer (default weights) returns a score, not None, and the
\* score s satisfies 0 <= s <= 1.
C15_ScoreWithinUnitInterval ==
    (/\ Scored
     /\ FGt(call.args.average_volume, F(0))
     /\ ~FLt(call.args.volume, F(0))) =>
        /\ Get(ret) # None
        /\ LET s == Get(Get(ret)) IN IsFinite(s) /\ ~FLt(s, F(0)) /\ ~FGt(s, F(1))

\* The scorer was applied to a volume above three times a positive average
\* and a price change of 150, and returned exactly 1: the cap has acted.
C15_Witness ==
    /\ Scored
    /\ FGt(call.args.average_volume, F(0))
    /\ FGt(call.args.volume, FMul(F(3), call.args.average_volume))
    /\ call.args.price_change_percent = F(150)
    /\ Get(ret) = Some(F(1))

\* normalize_value was applied to two values over the range lo..hi, lo < hi.
Normalized ==
    /\ call.fn = "normalize_value"
    /\ ~IsNone(ret)
    /\ FLt(call.args[3], call.args[4])

\* C16: for lo < hi, normalize_value(value, lo, hi) is 0 for value <= lo, 1 for
\* value >= hi and the double (value - lo) / (hi - lo) in between, and it
\* never decreases when value grows.
C16_NormalizeClampedLinearMonotone ==
    Normalized =>
        LET lo == call.args[3]
            hi == call.args[4]
            r == Get(ret)
            Exact(v, x) ==
                IF ~FGt(v, lo) THEN x = F(0)
                ELSE IF ~FLt(v, hi) THEN x = F(1)
                ELSE /\ x = FDiv(FSub(v, lo), FSub(hi, lo))
                     /\ ~FLt(x, F(0))
                     /\ ~FGt(x, F(1))
        IN  /\ Exact(call.args[1], r[1])
            /\ Exact(call.args[2], r[2])
            /\ ~FGt(call.args[1], call.args[2]) => ~FGt(r[1], r[2])

\* normalize_value mapped a value strictly inside the range to 1/6, which no
\* double equals, and a value above the range to 1.
C16_Witness ==
    /\ Normalized
    /\ Get(ret)[1] = Q(1, 6)
    /\ Get(ret)[2] = F(1)
    /\ FGt(call.args[2], call.args[4])

\* Every volume of the frame is zero or a positive finite double.
NonNegativeVolumes(rows) ==
    \A i \in 1..Len(rows) :
        rows[i].volume = Zero \/ (rows[i].volume[1] = 1 /\ rows[i].volume[2] # <<>>)

\* Every volume of the frame is a non-negative whole number.
WholeVolumes(rows) ==
    \A i \in 1..Len(rows) :
        rows[i].volume = Zero \/ (rows[i].volume[1] = 1 /\ rows[i].volume[3] >= 0)

\* The whole number a double holds.
IntOf(x) == IF x = Zero THEN 0 ELSE x[1] * BToInt(BShl(x[2], x[3]))

RECURSIVE TotalVolume(_)
\* The exact sum of the volumes of a frame of whole-number volumes.
TotalVolume(rows) ==
    IF rows = <<>> THEN 0 ELSE IntOf(Head(rows).volume) + TotalVolume(Tail(rows))

\* c's loop takes its step at a row of a frame of non-negative volumes whose
\* price change converts.
ScoresRow(c) ==
    /\ pc[c] = "scoring"
    /\ NonNegativeVolumes(data[c])
    /\ data[c][idx[c]].priceChangePercent.ok
    /\ (idx'[c] # idx[c] \/ pc'[c] # pc[c])

\* The step appends one Signal, for c's row, to the batch and to the log.
Emits(c) ==
    /\ Len(batch_signals'[c]) = Len(batch_signals[c]) + 1
    /\ batch_signals'[c][Len(batch_signals'[c])].symbol = data[c][idx[c]].symbol
    /\ Len(detected_signals') = Len(detected_signals) + 1

\* The step leaves the batch and the log as they were.
Skips(c) ==
    /\ batch_signals'[c] = batch_signals[c]
    /\ detected_signals' = detected_signals

\* C17 as stated: the average is the mean of the whole frame, taken once, and a
\* snapshot of the loop is emitted if and only if its volume is more than three
\* times that mean and its price change lies strictly between -2 and 1.
\* Stated for the frames of whole-number volumes, where volume, sum and mean
\* are compared exactly.
C17_EmittedIffTripleAverage ==
    [][\A c \in Callers :
        (ScoresRow(c) /\ WholeVolumes(data[c])) =>
            LET row == data[c][idx[c]]
                N == Len(data[c])
                p == row.priceChangePercent.val
                hot == IntOf(row.volume) * N > 3 * TotalVolume(data[c])
            IN  /\ average_volume'[c] = average_volume[c]
                /\ IF hot /\ -2 < p /\ p < 1 THEN Emits(c) ELSE Skips(c)]_vars

\* C17 amended: for every frame of non-negative volumes the average is the
\* float64 mean of the whole frame (the float64 sum of the volumes divided by
\* their number), taken once, and a snapshot of the loop is emitted if and only
\* if the float64 volume_spike (volume - average) / average is above 2 and its
\* price change lies strictly between -2 and 1.  (The average is compared with
\* the mean at the first row and does not change at any row.)
C17_EmittedIffSpikeAboveTwo ==
    [][\A c \in Callers :
        ScoresRow(c) =>
            LET row == data[c][idx[c]]
                N == Len(data[c])
                p == row.priceChangePercent.val
                window == -2 < p /\ p < 1
                spike == FDiv(FSub(row.volume, average_volume[c]), average_volume[c])
            IN  /\ idx[c] = 1 =>
                        /\ average_volume[c] = MeanVolume(data[c])
                        /\ WholeVolumes(data[c]) =>
                                average_volume[c] = FDiv(F(TotalVolume(data[c])), F(N))
                /\ average_volume'[c] = average_volume[c]
                /\ IF FGt(spike, F(2)) /\ window THEN Emits(c) ELSE Skips(c)]_vars

\* A cycle over the volumes 1, 5e-324, 0 has emitted its first row and no
\* other: the float64 sum is 1, the float64 mean is the double nearest to 1/3
\* and the float64 spike of the row is above 2, although the volume of the row
\* is below three times the exact mean of the frame.
C17_Witness ==
    \E c \in Callers :
        /\ pc[c] = "notifying"
        /\ Len(data[c]) = 3
        /\ data[c][1].volume = F(1)
        /\ data[c][2].volume = <<1, <<1>>, -1074>>
        /\ data[c][3].volume = F(0)
        /\ average_volume[c] = Q(1, 3)
        /\ FGt(FDiv(FSub(data[c][1].volume, average_volume[c]), average_volume[c]), F(2))
        /\ Len(batch_signals[c]) = 1
        /\ batch_signals[c][1].symbol = data[c][1].symbol

\* c is inside the with block of detect_pumps: in the cycle, leaving it, or
\* unwinding from an exception raised after the start message went out.
InLockedSection(c) ==
    \/ pc[c] \in InCycle \cup {"exiting"}
    \/ pc[c] = "raising" /\ sent[c][1].outcome \in {"ok", "non200"}

\* C18: the lock is held exactly while its holder is inside the with block, so
\* whenever no caller is inside it (after a normal end, an empty-frame return
\* or an exception) the lock is free, and a caller waiting for it can take it.
C18_LockFreeOutsideCycle ==
    /\ \A c \in Callers : lock = c => InLockedSection(c)
    /\ (\A c \in Callers : ~InLockedSection(c)) => lock = Free
    /\ \A c \in Callers :
        (pc[c] \in {"lockwait", "blocked"} /\ \A d \in Callers : ~InLockedSection(d))
            => ENABLED AcquireLock(c)

\* The only invocation so far appended a Signal and was then ended by an
\* exception inside the with block; the lock is free again.
C18_Witness ==
    \E c \in Callers :
        /\ pc[c] = "crashed"
        /\ clock = 1
        /\ Len(detected_signals) > 0
        /\ lock = Free

\* What the iteration at c's row does to a list of Signals when the history
\* fetch answers k.
AfterRow(c, signals, k) ==
    LET row == data[c][idx[c]]
        p == F(row.priceChangePercent.val)
        score == calculate_market_sentiment_float64(
                    [volume |-> row.volume, price_change_percent |-> p,
                     close_prices |-> k.closes], average_volume[c])
    IN  IF PassesFilter(score, p)
        THEN Append(signals, [symbol |-> row.symbol, priceChangePercent |-> p,
                              volume |-> row.volume, sentiment_score |-> Get(score),
                              action |-> "BUY", timestamp |-> clock])
        ELSE signals

\* C19: the close prices do not reach the result: whatever the history fetch
\* of an iteration answered, the log and the batch after the iteration are
\* those any other answer (a failure included) would have given, and the batch
\* message is made of the batch alone.
C19_HistoryDoesNotMatter ==
    [][\A c \in Callers :
        /\ FetchesHistory(c) =>
            \A k \in KlineOutcomes :
                /\ detected_signals' = AfterRow(c, detected_signals, k)
                /\ batch_signals'[c] = AfterRow(c, batch_signals[c], k)
        /\ (pc[c] = "notifying" /\ sent'[c] # sent[c]) =>
            LET blocks == sent'[c][Len(sent'[c])].message.blocks IN
            /\ batch_signals'[c] = batch_signals[c]
            /\ Len(blocks) = Len(batch_signals[c])
            /\ \A i \in 1..Len(blocks) :
                /\ blocks[i].symbol = batch_signals[c][i].symbol
                /\ blocks[i].volume = batch_signals[c][i].volume
                /\ blocks[i].priceChangePercent = batch_signals[c][i].priceChangePercent
                /\ blocks[i].timestamp = batch_signals[c][i].timestamp]_vars

\* The batch message went out for a frame of four snapshots whose last row was
\* emitted although its own history fetch had failed.
C19_Witness ==
    \E c \in Callers :
        /\ pc[c] = "exiting"
        /\ Len(data[c]) = 4
        /\ close_prices[c] = <<>>
        /\ Len(batch_signals[c]) = 1
        /\ batch_signals[c][1].symbol = data[c][4].symbol
        /\ Len(sent[c]) = 2

\* The float64 mean of the frame has not underflowed: it is a normal double
\* (2^-1022 or more), or it is 0 and every volume of the frame is 0.
MeanNotUnderflowed(rows) ==
    LET mean == MeanVolume(rows) IN
    \/ mean[1] = 1 /\ mean[2] # <<>> /\ mean[3] + BBitLen(mean[2]) >= -1021
    \/ \A i \in 1..Len(rows) : rows[i].volume = Zero

\* C20 as stated: a cycle over a non-empty frame of N snapshots with
\* non-negative volumes holds fewer than N / 3 Signals in its batch at every
\* moment, and a frame of three snapshots or fewer gives no Signal and no batch
\* message.
C20_FewerThanAThird ==
    \A c \in Callers :
        (data[c] # <<>> /\ NonNegativeVolumes(data[c])) =>
            /\ 3 * Len(batch_signals[c]) < Len(data[c])
            /\ Len(data[c]) <= 3 =>
                /\ batch_signals[c] = <<>>
                /\ \A i \in 1..Len(sent[c]) : sent[c][i].message.kind # "batch"

\* C20 amended: a cycle over a non-empty frame of N snapshots with non-negative
\* volumes whose float64 mean has not underflowed holds at most N / 3 Signals
\* in its batch at every moment, and a frame of two snapshots or fewer gives no
\* Signal and no batch message.  (With an underflowed mean the bound fails:
\* the volumes 5e-324, 0 have the mean 0.0 and give one Signal.)
C20_AtMostAThird ==
    \A c \in Callers :
        (data[c] # <<>> /\ NonNegativeVolumes(data[c]) /\ MeanNotUnderflowed(data[c])) =>
            /\ 3 * Len(batch_signals[c]) <= Len(data[c])
            /\ appended[c] = Len(batch_signals[c])
            /\ Len(data[c]) <= 2 =>
                /\ batch_signals[c] = <<>>
                /\ \A i \in 1..Len(sent[c]) : sent[c][i].message.kind # "batch"

\* A cycle over the six volumes 0.1, 0.1, 0, 0, 0, 0, whose mean 0.1 / 3 is
\* rounded, has sent the batch message for two Signals, a third of the frame.
C20_Witness ==
    \E c \in Callers :
        /\ pc[c] = "exiting"
        /\ Len(data[c]) = 6
        /\ data[c][1].volume = Q(1, 10)
        /\ MeanNotUnderflowed(data[c])
        /\ Len(batch_signals[c]) = 2
        /\ \E i \in 1..Len(sent[c]) : sent[c][i].message.kind = "batch"

====
